---- MODULE Spec2Model ----
(***************************************************************************)
(* Model of src/Optimization_oran_fpa.py: the energy objective             *)
(* calculate_energy_total and the flower pollination optimizer             *)
(* flower_pollination_algorithm.                                           *)
(*                                                                         *)
(* Numbers.  The program computes with floats.  The model computes with    *)
(* exact integers on a grid:                                               *)
(*   - an entry of a candidate or of an association matrix is stored as    *)
(*     the integer  Grid * (its value), so 1.0 is Grid and 0.5 is Grid/2;  *)
(*   - alpha is the fraction alpha_num / alpha_den;                        *)
(*   - an energy is stored as  EnergyUnit * (its value), with              *)
(*     EnergyUnit = Grid * Grid * alpha_den, which makes the product       *)
(*     (1 - a) * b * (alpha * V + beta) an integer.                        *)
(* A random draw is a choice among the grid values of its range; a draw    *)
(* whose result would leave the grid is not drawn.                         *)
(***************************************************************************)
EXTENDS Integers, Sequences, FiniteSets, TLC

VARIABLES
    \* ---- one call of flower_pollination_algorithm
    pc,               \* "call", "perturb", "evaluate", "return", "done", "raised"
    max_generations,  \* argument
    population_size,  \* argument
    bounds,           \* argument: sequence of <<low, high>>
    population,       \* list of candidates (line 84)
    fitness,          \* list of energies, index-aligned (lines 90, 117)
    best_solution,    \* line 96 / 126
    best_ref,         \* index of the population slot whose array object
                      \* best_solution still is (0: none); Python binds
                      \* best_solution to the array, it does not copy it
    best_fitness,     \* line 97 / 125
    convergence,      \* line 100 / 128
    generation,       \* loop variable of line 102: generations completed
    i,                \* loop variable of line 103 (1-based)
    step,             \* the locals of the last inner iteration: the operator
                      \* chosen, L, epsilon, j, k and the value assigned on
                      \* line 107 / 112 before the clip
    result,           \* the returned tuple (line 141)
    error,            \* the exception that ended the call, "" if none
    \* ---- history variables (not program state)
    prev_population,  \* the population as it stood when the generation began
    prev_best,        \* best_solution as it stood when the generation began
    seen_fitness,     \* every fitness value computed so far in the call
    \* ---- one call of calculate_energy_total on its own
    e_pc,             \* "idle", "call", "done", "raised"
    e_in,             \* its arguments
    e_out             \* its locals at the return

fpa_vars == <<pc, max_generations, population_size, bounds, population, fitness,
              best_solution, best_ref, best_fitness, convergence, generation, i,
              step, result, error, prev_population, prev_best, seen_fitness>>
energy_vars == <<e_pc, e_in, e_out>>
vars == <<fpa_vars, energy_vars>>

-----------------------------------------------------------------------------
(* Bounds of the model *)

\* 1.0 is Grid grid steps
Grid == 2
MaxGen == 2
MaxPop == 2
MaxDim == 2
\* the standard normal draw L of line 105 is an integer in -MaxGauss..MaxGauss
MaxGauss == 1

(* The example run of the program (lines 144-159) *)
P_epm == 200
P_prime_epm == 50
C_epm == 100
P_cpm == 300
P_prime_cpm == 60
C_cpm == 120
alpha_num == 1
alpha_den == 2
beta == 10
T == 1
L_epm == <<50, 60>>
L_cpm == <<70, 80>>
V_du == <<5, 10>>
V_cu == <<15, 20>>

EnergyUnit == Grid * Grid * alpha_den

ExampleParams ==
    [L_epm |-> L_epm, L_cpm |-> L_cpm,
     P_epm |-> P_epm, P_prime_epm |-> P_prime_epm, C_epm |-> C_epm,
     P_cpm |-> P_cpm, P_prime_cpm |-> P_prime_cpm, C_cpm |-> C_cpm,
     V_du |-> V_du, V_cu |-> V_cu,
     alpha_num |-> alpha_num, beta |-> beta, T |-> T]

-----------------------------------------------------------------------------
(* Helpers *)

Min(a, b) == IF a <= b THEN a ELSE b
Max(a, b) == IF a >= b THEN a ELSE b

RECURSIVE SumSeq(_)
SumSeq(s) == IF s = <<>> THEN 0 ELSE s[1] + SumSeq(Tail(s))

RECURSIVE SumOver(_, _)
\* the sum of f[x] over the finite set S
SumOver(f, S) ==
    IF S = {} THEN 0
    ELSE LET x == CHOOSE y \in S : TRUE IN f[x] + SumOver(f, S \ {x})

\* min(fitness) of a non-empty list
MinOf(s) == CHOOSE m \in {s[n] : n \in 1..Len(s)} : \A n \in 1..Len(s) : m <= s[n]

\* np.argmin: the first index of the minimum (1-based)
ArgMin(s) == CHOOSE n \in 1..Len(s) :
                 /\ s[n] = MinOf(s)
                 /\ \A m \in 1..(n - 1) : s[m] /= s[n]

-----------------------------------------------------------------------------
(* calculate_energy_total.  A two-dimensional array is a record of its      *)
(* shape (rows, cols) and its data, a sequence of rows; a flat array holds  *)
(* its sequence of entries.  A volume vector is a sequence; a scalar volume *)
(* broadcasts like a vector of one entry.                                   *)

Flat(x) == [ndim |-> 1, data |-> x]
Matrix(r, c, d) == [ndim |-> 2, rows |-> r, cols |-> c, data |-> d]

\* lines 34-36: a flat array of length n becomes n rows of one column
AsColumn(A) ==
    IF A.ndim = 1
    THEN Matrix(Len(A.data), 1, [t \in 1..Len(A.data) |-> <<A.data[t]>>])
    ELSE A

\* numpy broadcasting of an (r x c) array against a vector of length m:
\* the shapes agree when they are equal or one of them is 1
Broadcastable(c, m) == c = m \/ c = 1 \/ m = 1
BroadcastWidth(c, m) == Max(c, m)

\* np.sum((1 - M[:-1]) * M[1:] * (alpha * V + beta)) for a matrix M of more
\* than one row and a volume vector V, in EnergyUnit
TransitionSum(M, V, p) ==
    LET W == BroadcastWidth(M.cols, Len(V))
        mc(c) == IF M.cols = 1 THEN 1 ELSE c
        vc(c) == IF Len(V) = 1 THEN 1 ELSE c
        term == [tc \in (2..M.rows) \X (1..W) |->
                    (Grid - M.data[tc[1] - 1][mc(tc[2])])
                    * M.data[tc[1]][mc(tc[2])]
                    * (p.alpha_num * V[vc(tc[2])] + alpha_den * p.beta)]
    IN SumOver(term, (2..M.rows) \X (1..W))

\* lines 39-41
E_processing_epm(p) ==
    EnergyUnit * p.T *
    SumSeq([n \in 1..Len(p.L_epm) |->
               (IF p.L_epm[n] > 0 THEN p.P_epm ELSE 0)
               + (p.P_prime_epm * p.L_epm[n]) \div p.C_epm])

\* lines 44-46
E_processing_cpm(p) ==
    EnergyUnit * p.T *
    SumSeq([n \in 1..Len(p.L_cpm) |->
               (IF p.L_cpm[n] > 0 THEN p.P_cpm ELSE 0)
               + (p.P_prime_cpm * p.L_cpm[n]) \div p.C_cpm])

\* lines 49-52
migration_epm(A_t, p) ==
    LET A == AsColumn(A_t)
    IN IF A.rows > 1 THEN TransitionSum(A, p.V_du, p) ELSE 0

\* V_cu[:B_t.shape[1]]
Truncate(V, n) == SubSeq(V, 1, Min(n, Len(V)))

\* lines 55-58
migration_cpm(B_t, p) ==
    IF B_t.rows > 1 THEN TransitionSum(B_t, Truncate(p.V_cu, B_t.cols), p) ELSE 0

\* whether lines 50 and 56 raise ValueError (shapes that do not broadcast)
ShapesRaise(A_t, B_t, p) ==
    \/ /\ AsColumn(A_t).rows > 1
       /\ ~Broadcastable(AsColumn(A_t).cols, Len(p.V_du))
    \/ /\ B_t.rows > 1
       /\ ~Broadcastable(B_t.cols, Len(Truncate(p.V_cu, B_t.cols)))

\* lines 64-67
calculate_energy_total(A_t, B_t, p) ==
    E_processing_epm(p) + E_processing_cpm(p)
    + migration_epm(A_t, p) + migration_cpm(B_t, p)

-----------------------------------------------------------------------------
(* flower_pollination_algorithm *)

\* the (low, high) pairs a dimension may be given: the example's (0, 1),
\* a range above 1, and a pair with low > high
BoundChoices == {<<0, Grid>>, <<Grid, 2 * Grid>>, <<Grid, 0>>}

BoundsInputs == UNION {[1..n -> BoundChoices] : n \in 0..MaxDim}

\* random.uniform(a, b) is a + (b - a) * random(): a value between the two
UniformDraws(b) == Min(b[1], b[2])..Max(b[1], b[2])

\* line 84: the candidates random.uniform can draw for these bounds
CandidateDraws(bs) ==
    {c \in [1..Len(bs) -> 0..(2 * Grid)] :
        \A d \in 1..Len(bs) : c[d] \in UniformDraws(bs[d])}

\* random.gauss(0, 1), line 105
GaussDraws == (-MaxGauss)..MaxGauss

\* random.random(), lines 104 and 109: epsilon / Grid lies in [0, 1)
EpsilonDraws == 0..(Grid - 1)

\* mutant of MigrationContext: a context whose rows alternate 0 and 1
MigrationContextAlternating(n) ==
    Matrix(n, 1, [t \in 1..n |-> <<IF t % 2 = 0 THEN Grid ELSE 0>>])

\* line 87: B_t = np.zeros((len(population[0]), 1))
MigrationContext(n) == Matrix(n, 1, [t \in 1..n |-> <<0>>])

\* lines 90-94 and 117-121
Evaluate(pop) ==
    [n \in 1..Len(pop) |->
        calculate_energy_total(Flat(pop[n]), MigrationContext(Len(pop[1])),
                               ExampleParams)]

\* mutant of ClipValue: the clip is left out
ClipValueNone(x, lo, hi) == x

\* np.clip(x, a_min, a_max) is minimum(maximum(x, a_min), a_max)
ClipValue(x, lo, hi) == Min(Max(x, lo), hi)

\* line 115
Clip(x, bs) == [d \in 1..Len(x) |-> ClipValue(x[d], bs[d][1], bs[d][2])]

\* line 106: step = L * (population[i] - best_solution), line 107 adds it
GlobalProposal(pop, best, n, L) ==
    [d \in 1..Len(pop[n]) |-> pop[n][d] + L * (pop[n][d] - best[d])]

\* mutant of LocalProposal: j and k are read from the list as it stood when the
\* generation began
LocalProposalSnapshot(pop, prev, n, j, k, eps) ==
    [d \in 1..Len(pop[n]) |-> pop[n][d] + (eps * (prev[j][d] - prev[k][d])) \div Grid]

\* line 111: step = epsilon * (population[j] - population[k]), line 112 adds it;
\* population is the list as it stands, prev (the list as it stood when the
\* generation began) is not read
LocalProposal(pop, prev, n, j, k, eps) ==
    [d \in 1..Len(pop[n]) |-> pop[n][d] + (eps * (pop[j][d] - pop[k][d])) \div Grid]

\* the draw keeps the proposal on the grid
OnGrid(pop, j, k, eps) ==
    \A d \in 1..Len(pop[j]) : (eps * (pop[j][d] - pop[k][d])) % Grid = 0

\* mutant of BestAfterRebind: population[i] is updated in place (+=), which
\* writes through to best_solution while it names the same array
BestAfterInPlace(best, ref, n, new) == IF ref = n THEN new ELSE best

\* lines 107, 112 and 115 bind population[i] to a new array: the array that
\* best_solution names is left as it was
BestAfterRebind(best, ref, n, new) == best

\* mutant of NewBestFitness: the generation's best replaces the stored one
\* whether or not it is better
NewBestFitnessAlways(current_best, stored) == current_best

\* lines 124-126
ImprovedBest(current_best, stored) == current_best < stored
NewBestFitness(current_best, stored) ==
    IF ImprovedBest(current_best, stored) THEN current_best ELSE stored

\* mutant of LoopDone: one generation too many
LoopDoneLate(g, max_g) == g > max_g

\* line 102: range(max_generations) is exhausted
LoopDone(g, max_g) == g >= max_g

\* line 141: convergence is plotted (line 133), it is not returned
ReturnValue(best, fit, conv) == <<best, fit>>

NoStep == [op |-> "none", n |-> 0, L |-> 0, epsilon |-> 0, j |-> 0, k |-> 0,
           proposal |-> <<>>]

FpaIdle ==
    /\ pc = "idle" /\ max_generations = 0 /\ population_size = 0
    /\ bounds = <<>> /\ population = <<>> /\ fitness = <<>>
    /\ best_solution = <<>> /\ best_ref = 0 /\ best_fitness = 0
    /\ convergence = <<>> /\ generation = 0 /\ i = 1 /\ step = NoStep
    /\ result = <<>> /\ error = ""
    /\ prev_population = <<>> /\ prev_best = <<>> /\ seen_fitness = {}

EnergyIdle == e_pc = "idle" /\ e_in = <<>> /\ e_out = <<>>

\* the call: the arguments are bound, nothing has run
Init ==
    /\ pc = "call"
    /\ max_generations \in 0..MaxGen
    /\ population_size \in 0..MaxPop
    /\ bounds \in BoundsInputs
    /\ population = <<>> /\ fitness = <<>>
    /\ best_solution = <<>> /\ best_ref = 0 /\ best_fitness = 0
    /\ convergence = <<>> /\ generation = 0 /\ i = 1 /\ step = NoStep
    /\ result = <<>> /\ error = ""
    /\ prev_population = <<>> /\ prev_best = <<>> /\ seen_fitness = {}
    /\ EnergyIdle

\* line 84 builds an empty list when population_size = 0 and line 87 then
\* raises IndexError on population[0]
InitializeRaises ==
    /\ pc = "call"
    /\ population_size = 0
    /\ pc' = "raised"
    /\ error' = "IndexError"
    /\ UNCHANGED <<max_generations, population_size, bounds, population, fitness,
                   best_solution, best_ref, best_fitness, convergence, generation,
                   i, step, result, prev_population, prev_best, seen_fitness>>

\* lines 84-100
Initialize ==
    /\ pc = "call"
    /\ population_size > 0
    /\ \E pop \in [1..population_size -> CandidateDraws(bounds)] :
       \E fit \in {Evaluate(pop)} :
       \E first \in {ArgMin(fit)} :
         /\ population' = pop
         /\ fitness' = fit
         /\ best_ref' = first
         /\ best_solution' = pop[first]
         /\ best_fitness' = MinOf(fit)
         /\ convergence' = <<MinOf(fit)>>
         /\ seen_fitness' = {fit[n] : n \in 1..Len(fit)}
         /\ prev_population' = pop
         /\ prev_best' = pop[first]
    /\ generation' = 0
    /\ i' = 1
    /\ pc' = IF LoopDone(0, max_generations) THEN "return" ELSE "perturb"
    /\ UNCHANGED <<max_generations, population_size, bounds, step, result, error>>

\* the end of one iteration of the inner loop (line 103)
Advance ==
    /\ i' = IF i = population_size THEN 1 ELSE i + 1
    /\ pc' = IF i = population_size THEN "evaluate" ELSE "perturb"

\* lines 104-107 and 115: global pollination of individual i, then the clip
PerturbGlobal ==
    /\ pc = "perturb"
    /\ \E L \in GaussDraws :
         LET prop == GlobalProposal(population, best_solution, i, L)
             new == Clip(prop, bounds) IN
         /\ step' = [op |-> "global", n |-> i, L |-> L, epsilon |-> 0, j |-> 0,
                     k |-> 0, proposal |-> prop]
         /\ population' = [population EXCEPT ![i] = new]
         /\ best_solution' = BestAfterRebind(best_solution, best_ref, i, new)
    /\ best_ref' = IF best_ref = i THEN 0 ELSE best_ref
    /\ Advance
    /\ UNCHANGED <<max_generations, population_size, bounds, fitness, best_fitness,
                   convergence, generation, result, error, prev_population,
                   prev_best, seen_fitness>>

\* lines 108-112 and 115: local pollination of individual i, then the clip
PerturbLocal ==
    /\ pc = "perturb"
    /\ population_size >= 2
    /\ \E eps \in EpsilonDraws, j \in 1..population_size, k \in 1..population_size :
         /\ j /= k
         /\ OnGrid(population, j, k, eps)
         /\ LET prop == LocalProposal(population, prev_population, i, j, k, eps)
                new == Clip(prop, bounds) IN
            /\ step' = [op |-> "local", n |-> i, L |-> 0, epsilon |-> eps, j |-> j,
                        k |-> k, proposal |-> prop]
            /\ population' = [population EXCEPT ![i] = new]
            /\ best_solution' = BestAfterRebind(best_solution, best_ref, i, new)
    /\ best_ref' = IF best_ref = i THEN 0 ELSE best_ref
    /\ Advance
    /\ UNCHANGED <<max_generations, population_size, bounds, fitness, best_fitness,
                   convergence, generation, result, error, prev_population,
                   prev_best, seen_fitness>>

\* line 110: random.sample(range(population_size), 2) raises ValueError when
\* the population has fewer than two members
PerturbLocalRaises ==
    /\ pc = "perturb"
    /\ population_size < 2
    /\ step' = [op |-> "local", n |-> i, L |-> 0, epsilon |-> 0, j |-> 0, k |-> 0,
                proposal |-> <<>>]
    /\ pc' = "raised"
    /\ error' = "ValueError"
    /\ UNCHANGED <<max_generations, population_size, bounds, population, fitness,
                   best_solution, best_ref, best_fitness, convergence, generation,
                   i, result, prev_population, prev_best, seen_fitness>>

\* lines 117-129: re-score the population, update the best, record it
UpdateBest ==
    /\ pc = "evaluate"
    /\ \E fit \in {Evaluate(population)} :
       \E current_best \in {MinOf(fit)} :
       \E improved \in {ImprovedBest(current_best, best_fitness)} :
       \E new_best \in {IF improved THEN population[ArgMin(fit)] ELSE best_solution} :
       /\ fitness' = fit
       /\ best_fitness' = NewBestFitness(current_best, best_fitness)
       /\ best_solution' = new_best
       /\ best_ref' = IF improved THEN ArgMin(fit) ELSE best_ref
       /\ convergence' = Append(convergence, NewBestFitness(current_best, best_fitness))
       /\ seen_fitness' = seen_fitness \cup {fit[n] : n \in 1..Len(fit)}
       /\ prev_best' = new_best
    /\ prev_population' = population
    /\ generation' = generation + 1
    /\ pc' = IF LoopDone(generation + 1, max_generations) THEN "return" ELSE "perturb"
    /\ UNCHANGED <<max_generations, population_size, bounds, population, i, step,
                   result, error>>

\* lines 131-141: the plot reads convergence, the function returns
Return ==
    /\ pc = "return"
    /\ result' = ReturnValue(best_solution, best_fitness, convergence)
    /\ pc' = "done"
    /\ UNCHANGED <<max_generations, population_size, bounds, population, fitness,
                   best_solution, best_ref, best_fitness, convergence, generation,
                   i, step, error, prev_population, prev_best, seen_fitness>>

Next ==
    \/ (InitializeRaises /\ UNCHANGED energy_vars)
    \/ (Initialize /\ UNCHANGED energy_vars)
    \/ (PerturbGlobal /\ UNCHANGED energy_vars)
    \/ (PerturbLocal /\ UNCHANGED energy_vars)
    \/ (PerturbLocalRaises /\ UNCHANGED energy_vars)
    \/ (UpdateBest /\ UNCHANGED energy_vars)
    \/ (Return /\ UNCHANGED energy_vars)

Spec == Init /\ [][Next]_vars

-----------------------------------------------------------------------------
(* calculate_energy_total called on its own *)

\* entries of an association matrix: 0, 1 and 2
EntryVals == {0, Grid, 2 * Grid}
BinaryVals == {0, Grid}
MaxRows == 3

A_tInputs ==
    {Flat(x) : x \in UNION {[1..n -> EntryVals] : n \in 0..MaxRows}}
    \cup UNION {{Matrix(r, 2, d) : d \in [1..r -> [1..2 -> BinaryVals]]} : r \in 1..2}

B_tInputs ==
    {MigrationContext(2),
     Matrix(2, 1, <<<<0>>, <<Grid>>>>),
     Matrix(1, 2, <<<<0, Grid>>>>)}

ParamInputs ==
    {[ExampleParams EXCEPT !.L_epm = le, !.L_cpm = lc, !.T = t,
                           !.alpha_num = a, !.beta = b, !.V_du = v] :
        le \in {<<0, 0>>, L_epm}, lc \in {<<0, 0>>, L_cpm}, t \in {0, T},
        a \in {0, alpha_num}, b \in {0, beta},
        v \in {<<5>>, V_du, <<5, 10, 15>>}}

InitEnergy ==
    /\ FpaIdle
    /\ e_pc = "call"
    /\ e_in \in {[A_t |-> A, B_t |-> B, p |-> q] :
                    A \in A_tInputs, B \in B_tInputs, q \in ParamInputs}
    /\ e_out = <<>>

\* lines 34-67
EnergyCall ==
    /\ e_pc = "call"
    /\ ~ShapesRaise(e_in.A_t, e_in.B_t, e_in.p)
    /\ e_out' = [E_processing_epm |-> E_processing_epm(e_in.p),
                 E_processing_cpm |-> E_processing_cpm(e_in.p),
                 migration_epm |-> migration_epm(e_in.A_t, e_in.p),
                 migration_cpm |-> migration_cpm(e_in.B_t, e_in.p),
                 E_total |-> calculate_energy_total(e_in.A_t, e_in.B_t, e_in.p)]
    /\ e_pc' = "done"
    /\ UNCHANGED e_in

\* lines 50 and 56: numpy raises ValueError on shapes that do not broadcast
EnergyRaises ==
    /\ e_pc = "call"
    /\ ShapesRaise(e_in.A_t, e_in.B_t, e_in.p)
    /\ e_pc' = "raised"
    /\ UNCHANGED <<e_in, e_out>>

NextEnergy ==
    \/ (EnergyCall /\ UNCHANGED fpa_vars)
    \/ (EnergyRaises /\ UNCHANGED fpa_vars)

SpecEnergy == InitEnergy /\ [][NextEnergy]_vars

-----------------------------------------------------------------------------
(* Properties *)

ValidBounds == \A d \in 1..Len(bounds) : bounds[d][1] <= bounds[d][2]
InvalidBounds == Len(bounds) = 0 \/ ~ValidBounds
\* every bound lies in [0, 1]
UnitBounds == \A d \in 1..Len(bounds) : {bounds[d][1], bounds[d][2]} \subseteq 0..Grid
Initialized == pc \in {"perturb", "evaluate", "return", "done"}
\* fitness[n] is the score of population[n] as it stands
Scored == (pc = "perturb" /\ i = 1) \/ pc \in {"return", "done"}
Halted == pc \in {"done", "raised"}
Nearest(x, lo, hi) == IF x < lo THEN lo ELSE IF x > hi THEN hi ELSE x
Score(x) == calculate_energy_total(Flat(x), MigrationContext(Len(x)), ExampleParams)
ProcessingEnergy == E_processing_epm(ExampleParams) + E_processing_cpm(ExampleParams)

\* C1: the convergence history never increases from one entry to the next.
C1_Monotone ==
    \A g \in 2..Len(convergence) : convergence[g] <= convergence[g - 1]

\* a run whose best improved in generation 1 and whose generation 2 scored
\* worse than the stored best
C1_Witness ==
    /\ Len(convergence) = 3
    /\ convergence[2] < convergence[1]
    /\ Scored
    /\ MinOf(fitness) > best_fitness

\* C2: with low <= high in every dimension, every component of every candidate
\* lies within its bounds after initialization and after every clip, and the
\* clipped individual is the proposal projected to the nearest bound.
C2_Contained ==
    (ValidBounds /\ Initialized) =>
        /\ \A n \in 1..Len(population) : \A d \in 1..Len(bounds) :
               /\ bounds[d][1] <= population[n][d]
               /\ population[n][d] <= bounds[d][2]
        /\ step.op /= "none" =>
               \A d \in 1..Len(bounds) :
                   population[step.n][d]
                       = Nearest(step.proposal[d], bounds[d][1], bounds[d][2])

\* a proposal above the high bound in one dimension and below the low bound
\* in another
C2_Witness ==
    /\ ValidBounds /\ Initialized /\ step.op /= "none"
    /\ \E d \in 1..Len(bounds) : step.proposal[d] > bounds[d][2]
    /\ \E d \in 1..Len(bounds) : step.proposal[d] < bounds[d][1]

C3_BestIsMinimum ==
    Initialized =>
        /\ \A f \in seen_fitness : best_fitness <= f
        /\ best_fitness \in seen_fitness
        /\ Score(best_solution) = best_fitness

C3_ChangesOnlyOnImprovement ==
    (best_solution' /= best_solution \/ best_fitness' /= best_fitness) =>
        \/ pc = "call"
        \/ /\ pc = "evaluate"
           /\ MinOf(fitness') < best_fitness
           /\ best_fitness' = MinOf(fitness')
           /\ best_solution' \in {population[n] : n \in 1..Len(population)}

\* C3: best_fitness is the minimum of every fitness computed so far,
\* best_solution scores best_fitness, and both change only at initialization
\* or when a generation's minimum is strictly lower; perturbing or clipping
\* the population never changes best_solution.
C3_GlobalBest == [](C3_BestIsMinimum) /\ [][C3_ChangesOnlyOnImprovement]_vars

\* the slot best_solution was taken from has since been perturbed: no member
\* of the population equals best_solution any more
C3_Witness ==
    /\ pc = "done"
    /\ generation >= 1
    /\ best_ref = 0
    /\ \A n \in 1..Len(population) : population[n] /= best_solution

C4_ReturnState ==
    /\ Initialized => (generation <= max_generations /\ Len(convergence) = generation + 1)
    /\ pc = "done" =>
          /\ generation = max_generations
          /\ result = <<best_solution, best_fitness>>
          /\ Len(convergence) = max_generations + 1
          /\ (population_size = 1 /\ max_generations = 0) =>
                /\ result = <<prev_population[1], Score(prev_population[1])>>
                /\ Len(convergence) = 1
    /\ pc = "raised" => population_size < 2

\* the iterations left: each transition of the call uses one up
Remaining ==
    CASE pc = "call" -> max_generations * (population_size + 1) + 2
      [] pc = "perturb" -> (max_generations - generation - 1) * (population_size + 1)
                           + (population_size - i + 1) + 2
      [] pc = "evaluate" -> (max_generations - generation - 1) * (population_size + 1) + 2
      [] pc = "return" -> 1
      [] OTHER -> 0

C5_NonNegative ==
    e_pc = "done" => e_out.E_total >= 0

\* C6 (as claimed): a call with invalid bounds is rejected before anything
\* runs: no population, no evaluation, no generation, no result.
C6_InvalidBoundsRejected ==
    InvalidBounds =>
        /\ pc \in {"call", "raised"}
        /\ population = <<>> /\ fitness = <<>> /\ generation = 0 /\ result = <<>>
        /\ pc = "raised" => error = "ConfigurationError"

\* C7 (as claimed): with population_size < 2 and max_generations >= 1 the
\* call never perturbs an individual and then fails (stated for runs with
\* valid bounds).
C7_NoFailureAfterPerturbing ==
    (~InvalidBounds /\ population_size < 2 /\ max_generations >= 1 /\ pc = "raised") =>
        (generation = 0 /\ step.n <= 1 /\ population = prev_population)

\* the 0 -> 1 transitions of a 0/1 matrix: <<t, c>> with row t-1 at 0, row t at 1
Transitions(A) ==
    {tc \in (2..A.rows) \X (1..A.cols) :
        A.data[tc[1] - 1][tc[2]] = 0 /\ A.data[tc[1]][tc[2]] = Grid}

IsBinary(A) ==
    \A t \in 1..A.rows : \A c \in 1..A.cols : A.data[t][c] \in BinaryVals

\* C8 (as claimed): for a 0/1 candidate the class-E migration energy is one
\* charge alpha * migration_volume + beta per position that goes from 0 to 1,
\* the migration volume being that of the position's column.
C8_OneChargePerTransition ==
    (e_pc = "done" /\ IsBinary(AsColumn(e_in.A_t))) =>
        LET A == AsColumn(e_in.A_t)
            V == e_in.p.V_du
        IN \E vol \in [1..A.cols -> {V[m] : m \in 1..Len(V)}] :
              e_out.migration_epm =
                  SumOver([tc \in Transitions(A) |->
                              Grid * Grid * (e_in.p.alpha_num * vol[tc[2]]
                                             + alpha_den * e_in.p.beta)],
                          Transitions(A))

\* what a local step of individual n reads: the individuals before n as they
\* stand (already perturbed and clipped in this generation), the others as
\* they stood when the generation began
ReadBy(n, m) == IF m < n THEN population[m] ELSE prev_population[m]

C9_Frame ==
    /\ pc = "perturb" => \A m \in i..population_size : population[m] = prev_population[m]
    /\ pc \in {"perturb", "evaluate"} => best_solution = prev_best

C9_StepReads ==
    (pc = "perturb" /\ pc' /= "raised") =>
        /\ best_solution' = best_solution /\ best_fitness' = best_fitness
        /\ convergence' = convergence
        /\ step'.op = "global" =>
              step'.proposal =
                  [d \in 1..Len(bounds) |->
                      prev_population[i][d]
                      + step'.L * (prev_population[i][d] - prev_best[d])]
        /\ step'.op = "local" =>
              step'.proposal =
                  [d \in 1..Len(bounds) |->
                      prev_population[i][d]
                      + (step'.epsilon * (ReadBy(i, step'.j)[d] - ReadBy(i, step'.k)[d]))
                        \div Grid]

\* C9 (amended): within a generation GlobalBest is never replaced and every
\* step reads the previous generation's GlobalBest and the individual's own
\* previous value, but a local step of individual i reads individuals j, k < i
\* as already perturbed and clipped in this generation.
C9_ReadsCurrentPopulation == [](C9_Frame) /\ [][C9_StepReads]_vars

\* a local step that read an individual already changed in this generation
C9_Witness ==
    /\ pc \in {"perturb", "evaluate"}
    /\ step.op = "local" /\ step.epsilon > 0
    /\ step.j < step.n
    /\ population[step.j] /= prev_population[step.j]
    /\ step.proposal /=
          [d \in 1..Len(bounds) |->
              prev_population[step.n][d]
              + (step.epsilon * (prev_population[step.j][d] - prev_population[step.k][d]))
                \div Grid]

\* C9 (as claimed): a local step reads j and k as they stood at the end of the
\* previous generation (stated for runs with valid bounds).
C9_ReadsSnapshot ==
    [][(ValidBounds /\ pc = "perturb" /\ pc' /= "raised" /\ step'.op = "local") =>
          step'.proposal =
              [d \in 1..Len(bounds) |->
                  prev_population[i][d]
                  + (step'.epsilon * (prev_population[step'.j][d]
                                      - prev_population[step'.k][d])) \div Grid]]_vars

\* C10: in a run the fitness of a candidate is the constant processing energy
\* plus its class-E migration term (the class-C migration term is 0), so two
\* fitness values differ by the difference of the class-E migration terms;
\* with bounds inside [0, 1] no recorded best is below the processing energy.
C10_FitnessIsMigration ==
    /\ Scored =>
          \A a \in 1..Len(population) :
              /\ fitness[a] = ProcessingEnergy
                               + migration_epm(Flat(population[a]), ExampleParams)
              /\ \A b \in 1..Len(population) :
                    fitness[a] - fitness[b]
                      = migration_epm(Flat(population[a]), ExampleParams)
                        - migration_epm(Flat(population[b]), ExampleParams)
    /\ (Initialized /\ UnitBounds) =>
          \A g \in 1..Len(convergence) : convergence[g] >= ProcessingEnergy

\* two candidates of different fitness, the best above the processing energy
C10_Witness ==
    /\ pc = "done" /\ UnitBounds /\ generation >= 1
    /\ \E a, b \in 1..Len(population) : fitness[a] /= fitness[b]
    /\ best_fitness > ProcessingEnergy

====
